---- MODULE Spec2Model ----
(***************************************************************************)
(* depends-rs: the per-edge dependency wrapper (Dependency<T>) and the     *)
(* nodes it resolves.                                                      *)
(*                                                                         *)
(* Dependency::resolve is translated from                                  *)
(* src/depends_core/src/execution/dependency/mod.rs.  The Input Node, the  *)
(* derived node, resolve_root and the view types live in other files of    *)
(* the crate; they are modelled from the design document, except for what  *)
(* the unit test of mod.rs shows about them: the fields of a freshly built *)
(* InputNode (line 112) and the sequence of calls that succeeds (lines     *)
(* 115-131).  The resolve_state cell follows the guard of the design       *)
(* document: an operation writes Resolving or Updating on entry and        *)
(* Resting on exit.  A freshly built node reads Updating although nothing  *)
(* is in flight on it, and its first operation is admitted (lines 112 to   *)
(* 117); `busy` is the run-time checked exclusive borrow of the node's     *)
(* RefCells (lines 16 and 112), which tells that state from an update in   *)
(* flight.                                                                 *)
(*                                                                         *)
(* Execution is single threaded.  A call in progress is a frame on         *)
(* `stack`; every action performs one step of the top frame.  While a      *)
(* node runs user code (HashValue::hash_value during resolve,              *)
(* UpdateInput::update_mut during update) that code may call back into     *)
(* the library: these are the only re-entrant calls besides cycles.        *)
(*                                                                         *)
(* The Comments node of src/examples/src/comments.rs is the payload of the *)
(* input node "c".  CommentsSpec runs its update_mut and clean directly on *)
(* a Comments value, in any order, from the default value.                 *)
(***************************************************************************)
EXTENDS Integers, Sequences, FiniteSets, TLC

\* ------------------------------------------------------------------ bounds
\* Payloads are Foo(u8); the model uses the values 0..MaxVal.
MaxVal == 2
\* Width of the modelled fingerprint (u64 in the program).
HashBits == 3
\* How many user callbacks may be nested inside one another.
MaxNest == 1
\* Comment ids are 1..MaxId (i64 in the program).
MaxId == 2
\* Updates a Comments value receives in a run (generation is a usize).
MaxGen == 2
\* Calls of update_mut in a run of CommentsSpec.
MaxLog == 3

Values == 0..MaxVal

\* ---------------------------------------------------------------- vertices
Inputs == {"n", "c"}
Deriveds == {"d"}
Nodes == Inputs \cup Deriveds
Wrappers == {"w1", "w2", "w3"}

\* -------------------------------------------------------------- NodeHash
NotHashed == [tag |-> "NotHashed", fp |-> 0]
Hashed(h) == [tag |-> "Hashed", fp |-> h]

\* Option<NodeHash>
None == [some |-> FALSE, v |-> NotHashed]
Some(x) == [some |-> TRUE, v |-> x]

\* DependencyState
Clean == "Clean"
Dirty == "Dirty"

\* IsDirty::is_dirty of the reference a resolution returned
is_dirty(r) == r.state = Dirty

\* --------------------------------------------------------------- hashing
\* The hashing strategy comes from the visitor (visitor.hasher()), so it is
\* the caller's choice: "wide" keeps the payloads of the model apart,
\* "narrow" drops the low bit, so that neighbouring payloads collide.
Strategies == {"wide", "narrow"}

HasherWriteU8(s, v) ==
    IF s = "wide" THEN ((v + 5) * 3) % (2 ^ HashBits) ELSE v \div 2

\* Foo::hash_value: hasher.write_u8(self.0); NodeHash::Hashed(hasher.finish())
HashValue(s, v) == Hashed(HasherWriteU8(s, v))

\* Foo::update_mut: self.0 = update
UpdateMutKeepsOld(old, update) == old

UpdateMut(old, update) == update

\* Foo::clean: no transient state
CleanPayload(v) == v

\* ---------------------------------------------------------------- Comments
\* models::Comment: the id update_mut reads, and the rest of the comment.
Ids == 1..MaxId
Texts == {"a", "b"}
Comment == [id : Ids, text : Texts]

\* Comments::default(): no comments, nothing new, generation 0.  The map is
\* a function whose domain is the set of keys.
DefaultComments ==
    [comments |-> [k \in {} |-> 0], new_comment_ids |-> <<>>, generation |-> 0]

\* HashMap::insert: the value stored under the key is replaced.
InsertKeepsOld(m, k, x) ==
    [j \in DOMAIN m \cup {k} |-> IF j \in DOMAIN m THEN m[j] ELSE x]

Insert(m, k, x) == [j \in DOMAIN m \cup {k} |-> IF j = k THEN x ELSE m[j]]

\* Comments::update_mut
CommentsUpdateMutSetsUnique(c, update) ==
    [comments |-> Insert(c.comments, update.id, update),
     new_comment_ids |->
         IF \E i \in 1..Len(c.new_comment_ids) :
                c.new_comment_ids[i] = update.id
         THEN c.new_comment_ids
         ELSE Append(c.new_comment_ids, update.id),
     generation |-> c.generation + 1]

CommentsUpdateMutOnlyNew(c, update) ==
    [comments |-> Insert(c.comments, update.id, update),
     new_comment_ids |-> Append(c.new_comment_ids, update.id),
     generation |->
         IF update.id \in DOMAIN c.comments /\ c.comments[update.id] = update
         THEN c.generation ELSE c.generation + 1]

CommentsUpdateMut(c, update) ==
    [comments |-> Insert(c.comments, update.id, update),
     new_comment_ids |-> Append(c.new_comment_ids, update.id),
     generation |-> c.generation + 1]

\* Comments::clean
CommentsCleanKeepsNew(c) == c

CommentsCleanNewGeneration(c) ==
    [c EXCEPT !.new_comment_ids = <<>>, !.generation = @ + 1]

CommentsClean(c) == [c EXCEPT !.new_comment_ids = <<>>]

\* Comments::new_comments: the comment stored under each new id, in order.
new_comments(c) ==
    [i \in 1..Len(c.new_comment_ids) |-> c.comments[c.new_comment_ids[i]]]

\* #[depends(hash)] generation: the hash is computed from this field alone.
HasherWriteUsize(s, v) == HasherWriteU8(s, v)

CommentsHashValue(s, c) == Hashed(HasherWriteUsize(s, c.generation))

\* ------------------------------------------------- the payload of a node
\* HashValue, UpdateInput and Clean of the payload type of node n.
hash_value(n, s, v) ==
    IF n = "c" THEN CommentsHashValue(s, v) ELSE HashValue(s, v)
update_mut(n, old, update) ==
    IF n = "c" THEN CommentsUpdateMut(old, update) ELSE UpdateMut(old, update)
clean(n, v) == IF n = "c" THEN CommentsClean(v) ELSE CleanPayload(v)

\* The updates node n accepts.
Updates(n) == IF n = "c" THEN Comment ELSE Values

VARIABLES
    graph,          \* the graph built by the caller (one of Shapes)
    strategy,       \* the visitor's hashing strategy
    data,           \* NodeState.data of every node
    node_hash,      \* NodeState.node_hash of every node
    resolve_state,  \* InputNode.resolve_state (the value in the cell)
    busy,           \* InputNode's RefCells are mutably borrowed by a call
    last_state,     \* Dependency.last_state (the value in the RefCell)
    ls_borrowed,    \* Dependency.last_state is mutably borrowed
    visited,        \* nodes the visitor has seen in this pass
    stack,          \* the call chain, outermost first
    ret,            \* what the call that returned last returned
    observed,       \* history: hash seen by w's last successful resolution
    pending,        \* history: an update reached w's node since that
    failed_since,   \* history: w failed since its last success  
    snap,           \* history: wrapper and node state when the pass began
    written,        \* history: the value node "n" was built or updated with
    log,            \* history: the comments the Comments value was updated with
    cleaned,        \* history: length of log when clean ran last
    away            \* history: w's node held another hash since w saw it

vars == <<graph, strategy, data, node_hash, resolve_state, busy,
          last_state, ls_borrowed, visited, stack, ret, observed, pending,
          failed_since, snap, written, log, cleaned, away>>

\* ------------------------------------------------------------ graph shapes
\* The graphs the model is run on.  `dep` is the `dependency` field of each
\* wrapper, `ins` the derived node's own wrappers and `roots` the wrappers
\* the caller holds and may resolve from outside.
Diamond ==
    [dep |-> [w1 |-> "n", w2 |-> "n", w3 |-> "w1"],
     ins |-> <<>>, roots |-> {"w1", "w2", "w3"}]
Derived ==
    [dep |-> [w1 |-> "d", w2 |-> "n", w3 |-> "n"],
     ins |-> <<"w2", "w3">>, roots |-> {"w1"}]
Cycle ==
    [dep |-> [w1 |-> "d", w2 |-> "n", w3 |-> "w1"],
     ins |-> <<"w2", "w3">>, roots |-> {"w1"}]
\* A derived node that counts the new comments of a Comments node, which it
\* reads through two wrappers.
Feed ==
    [dep |-> [w1 |-> "d", w2 |-> "c", w3 |-> "c"],
     ins |-> <<"w2", "w3">>, roots |-> {"w1"}]
Shapes == {Diamond, Derived, Cycle, Feed}

\* Dependency.dependency of wrapper w
dependency(w) == graph.dep[w]

Range(f) == {f[i] : i \in DOMAIN f}

Targets(v) ==
    IF v \in Wrappers THEN {dependency(v)}
    ELSE IF v \in Deriveds THEN Range(graph.ins) ELSE {}

RECURSIVE ReachSet(_, _)
ReachSet(S, k) ==
    IF k = 0 THEN S ELSE ReachSet(S \cup UNION {Targets(v) : v \in S}, k - 1)

\* The input nodes a wrapper's resolution reads.
InputsOf(w) == ReachSet({w}, Cardinality(Nodes \cup Wrappers)) \cap Inputs

\* The input nodes of the graph: the ones a root reads.
Used == UNION {InputsOf(w) : w \in graph.roots}

\* The vertex at the end of a chain of wrappers.
RECURSIVE Leaf(_, _)
Leaf(v, k) ==
    IF v \in Wrappers /\ k > 0 THEN Leaf(dependency(v), k - 1) ELSE v

\* ------------------------------------------------------------------ frames
\* `arg` is the update of a Foo node, `comment` the update of a Comments
\* node.
NoComment == [id |-> 0, text |-> "a"]

Frame(k, id, pc, arg) ==
    [k |-> k, id |-> id, pc |-> pc, arg |-> arg, comment |-> NoComment,
     i |-> 1, acc |-> 0, dirty |-> FALSE, upd |-> FALSE, saved |-> None,
     away |-> FALSE]

\* The frame of a call of update on input node n, and the update it holds.
UpdateFrame(n, v) ==
    IF n = "c" THEN [Frame("upd", n, "enter", 0) EXCEPT !.comment = v]
    ELSE Frame("upd", n, "enter", v)
Arg(f) == IF f.id = "c" THEN f.comment ELSE f.arg

\* The frame of a call of resolve on vertex t.
ResolveFrame(t) ==
    IF t \in Wrappers THEN Frame("dep", t, "enter", 0)
    ELSE IF t \in Deriveds THEN Frame("der", t, "enter", 0)
    ELSE Frame("node", t, "enter", 0)

Top == stack[Len(stack)]
Below == SubSeq(stack, 1, Len(stack) - 1)
SetTop(f) == [stack EXCEPT ![Len(stack)] = f]

\* Frames that are running user code with a call made from it above them.
NestDepth == Cardinality({j \in 1..(Len(stack) - 1) : stack[j].pc = "body"})

\* `value` is the payload a view of a Foo or a derived node shows, `view`
\* the payload a view of a Comments node shows.
NoRet ==
    [k |-> "none", id |-> "none", ok |-> TRUE, state |-> Clean, value |-> 0,
     view |-> DefaultComments,
     hash |-> NotHashed, prev |-> None, upd |-> FALSE, nested |-> FALSE,
     after_fail |-> FALSE, saved |-> None, away |-> FALSE]

\* The payload result r shows.
Payload(r) ==
    IF Leaf(r.id, Cardinality(Wrappers)) = "c" THEN r.view ELSE r.value

\* ResolveResult: Ok(view) carries the value and the hash the view reports,
\* Err is the exclusive-access error.
Ok(k, id, state, value, hash) ==
    IF Leaf(id, Cardinality(Wrappers)) = "c"
    THEN [NoRet EXCEPT !.k = k, !.id = id, !.state = state, !.view = value,
                       !.hash = hash, !.nested = NestDepth > 0]
    ELSE [NoRet EXCEPT !.k = k, !.id = id, !.state = state, !.value = value,
                       !.hash = hash, !.nested = NestDepth > 0]
Err(k, id) == [NoRet EXCEPT !.k = k, !.id = id, !.ok = FALSE,
                            !.nested = NestDepth > 0]

\* A resolve_root called from outside is running, and the top frame belongs
\* to it rather than to a call made by user code.
InPass == stack # <<>> /\ stack[1].k = "root" /\ NestDepth = 0

\* The caller continues: a frame waiting for its callee looks at `ret`,
\* user code that made the call goes on whatever the call returned.
Resume(s) ==
    IF s # <<>> /\ s[Len(s)].pc = "inner"
    THEN [s EXCEPT ![Len(s)].pc = "ret"] ELSE s

\* What a pass may not undo: taken when resolve_root is called, dropped
\* when it returns.
Snapshot == [last |-> last_state, hash |-> node_hash, data |-> data,
             erred |-> {}]
\* Vertex v returned the error that the pass is failing with.
AddErred(v) == IF InPass THEN [snap EXCEPT !.erred = @ \cup {v}] ELSE snap

NoSnapshot ==
    [last |-> [w \in Wrappers |-> None], hash |-> [n \in Nodes |-> NotHashed],
     data |-> [n \in Nodes |-> IF n = "c" THEN DefaultComments ELSE 0],
     erred |-> {}]

\* -------------------------------------------------------------------- Init
\* InputNode::new(Foo(v)) and Dependency::new(Rc::clone(&node)), as the unit
\* test prints them: resolve_state Updating, node_hash NotHashed,
\* last_state None.
NewResolveStateResting == "Resting"

NewResolveState == "Updating"

NewNodeHash == NotHashed

\* Dependency::new: last_state: RefCell::new(None)
NewLastStateHashed == Some(NotHashed)

NewLastState == None

Init ==
    /\ graph \in Shapes
    /\ strategy \in Strategies
    /\ \E v \in (IF "n" \in Used THEN Values ELSE {0}) :
          data = [n \in Nodes |->
                     IF n = "c" THEN DefaultComments
                     ELSE IF n = "n" THEN v ELSE 0]
    /\ node_hash = [n \in Nodes |-> NewNodeHash]
    /\ resolve_state = [n \in Nodes |-> NewResolveState]
    /\ busy = [n \in Nodes |-> FALSE]
    /\ last_state = [w \in Wrappers |-> NewLastState]
    /\ ls_borrowed = [w \in Wrappers |-> FALSE]
    /\ visited = {}
    /\ stack = <<>>
    /\ ret = NoRet
    /\ observed = [w \in Wrappers |-> None]
    /\ pending = [w \in Wrappers |-> FALSE]
    /\ failed_since = [w \in Wrappers |-> FALSE]
    /\ snap = NoSnapshot
    /\ written = data["n"]
    /\ log = <<>>
    /\ cleaned = 0
    /\ away = [w \in Wrappers |-> FALSE]

\* A call returns r to its caller.
Return(r) ==
    /\ stack' = Resume(Below)
    /\ ret' = r

\* ---------------------------------------------------------- external calls
\* Resolve::resolve_root on a wrapper the caller holds: one full pass,
\* resolve and then the cleanup hook.
ResolveRoot(w) ==
    /\ stack = <<>>
    /\ w \in graph.roots
    /\ stack' = <<Frame("root", w, "inner", 0), ResolveFrame(w)>>
    /\ ret' = NoRet
    /\ snap' = Snapshot
    /\ UNCHANGED <<graph, strategy, data, node_hash, resolve_state, busy,
                   last_state, ls_borrowed, visited, observed, pending,
                   failed_since>>
    /\ UNCHANGED <<written, log, cleaned, away>>

\* InputNode::update(delta) called by the owner of the node.
Update(n, v) ==
    /\ stack = <<>>
    /\ n \in Used
    /\ n = "c" => data[n].generation < MaxGen
    /\ stack' = <<UpdateFrame(n, v)>>
    /\ ret' = NoRet
    /\ UNCHANGED <<graph, strategy, data, node_hash, resolve_state, busy,
                   last_state, ls_borrowed, visited, observed, pending,
                   failed_since, snap>>
    /\ UNCHANGED <<written, log, cleaned, away>>

\* ------------------------------------------- calls made from user code
\* hash_value or update_mut of a node calls update on some input node.
NestedUpdate(n, v) ==
    /\ stack # <<>>
    /\ Top.pc = "body"
    /\ NestDepth < MaxNest
    /\ n \in Used
    /\ n = "c" => data[n].generation < MaxGen
    /\ stack' = Append(stack, UpdateFrame(n, v))
    /\ ret' = NoRet
    /\ UNCHANGED <<graph, strategy, data, node_hash, resolve_state, busy,
                   last_state, ls_borrowed, visited, observed, pending,
                   failed_since, snap>>
    /\ UNCHANGED <<written, log, cleaned, away>>

\* hash_value or update_mut of a node resolves a wrapper it can reach.
NestedResolve(w) ==
    /\ stack # <<>>
    /\ Top.pc = "body"
    /\ NestDepth < MaxNest
    /\ w \in graph.roots
    /\ stack' = Append(stack, ResolveFrame(w))
    /\ ret' = NoRet
    /\ UNCHANGED <<graph, strategy, data, node_hash, resolve_state, busy,
                   last_state, ls_borrowed, visited, observed, pending,
                   failed_since, snap>>
    /\ UNCHANGED <<written, log, cleaned, away>>

\* ------------------------------------------------------ Dependency::resolve
\* self.last_state.try_borrow_mut(): granted unless the cell is borrowed.
TryBorrowMutAlways(borrowed) == TRUE

TryBorrowMut(borrowed) == ~borrowed

\* last_state.map(|s| s == current_state).unwrap_or(false)
IsCleanWhenNone(last, current) == ~last.some \/ last.v = current

IsCleanWhenSome(last, current) == last.some

IsCleanInverted(last, current) == last.some /\ last.v # current

IsClean(last, current) == last.some /\ last.v = current

\* if .. { Clean } else { (*last_state) = Some(current_state); Dirty }
NextLastStateNeverWritten(last, current) == last

NextLastStateKeepsFirst(last, current) ==
    IF last.some THEN last ELSE Some(current)

NextLastState(last, current) ==
    IF IsClean(last, current) THEN last ELSE Some(current)

ClassifyAlwaysDirty(last, current) == Dirty

Classify(last, current) == IF IsClean(last, current) THEN Clean ELSE Dirty

\* (*last_state) = ..: the cell written is the wrapper's own.
StoreLastStateShared(ls, w, x) ==
    [u \in Wrappers |-> IF dependency(u) = dependency(w) THEN x ELSE ls[u]]

StoreLastState(ls, w, x) == [ls EXCEPT ![w] = x]

\* `?` on line 55 leaves resolve before line 60 can write the cell.
LastStateTakenOnError(last) == None

LastStateAfterError(last) == last

\* A RefMut that goes out of scope gives the cell back.
ReleaseLeaks(b, w) == b

Release(b, w) == [b EXCEPT ![w] = FALSE]

\* let mut last_state = self.last_state.try_borrow_mut()?;
\* then the call self.dependency.resolve(visitor)
DepEnter ==
    /\ stack # <<>>
    /\ Top.k = "dep" /\ Top.pc = "enter"
    /\ LET w == Top.id IN
       IF TryBorrowMut(ls_borrowed[w])
       THEN /\ ls_borrowed' = [ls_borrowed EXCEPT ![w] = TRUE]
            /\ stack' = Append(SetTop([Top EXCEPT !.pc = "inner",
                                                  !.upd = pending[w],
                                                  !.away = away[w],
                                                  !.saved = last_state[w]]),
                               ResolveFrame(dependency(w)))
            /\ pending' = [pending EXCEPT ![w] = FALSE]
            /\ away' = [away EXCEPT ![w] = FALSE]
            /\ UNCHANGED <<ret, failed_since, snap>>
       ELSE /\ Return([Err("dep", w) EXCEPT !.saved = last_state[w]])
            /\ failed_since' = [failed_since EXCEPT ![w] = TRUE]
            /\ snap' = AddErred(w)
            /\ UNCHANGED <<ls_borrowed, pending, away>>
    /\ UNCHANGED <<graph, strategy, data, node_hash, resolve_state, busy,
                   last_state, visited, observed>>
    /\ UNCHANGED <<written, log, cleaned>>

\* `?` on the inner result, then lines 56-62.
DepReturn ==
    /\ stack # <<>>
    /\ Top.k = "dep" /\ Top.pc = "ret"
    /\ LET w == Top.id
           current_state == ret.hash
       IN
       /\ ls_borrowed' = Release(ls_borrowed, w)
       /\ IF ~ret.ok
          THEN /\ last_state' =
                      StoreLastState(last_state, w,
                                     LastStateAfterError(last_state[w]))
               /\ Return([Err("dep", w) EXCEPT !.saved = Top.saved])
               /\ pending' = [pending EXCEPT ![w] = @ \/ Top.upd]
               /\ away' = [away EXCEPT ![w] = @ \/ Top.away]
               /\ failed_since' = [failed_since EXCEPT ![w] = TRUE]
               /\ snap' = AddErred(w)
               /\ UNCHANGED observed
          ELSE /\ last_state' =
                      StoreLastState(last_state, w,
                                     NextLastState(last_state[w], current_state))
               /\ Return([Ok("dep", w, Classify(last_state[w], current_state),
                             Payload(ret), current_state)
                          EXCEPT !.prev = observed[w], !.upd = Top.upd,
                                 !.away = Top.away,
                                 !.after_fail = failed_since[w],
                                 !.saved = Top.saved])
               /\ observed' = [observed EXCEPT ![w] = Some(current_state)]
               /\ failed_since' = [failed_since EXCEPT ![w] = FALSE]
               /\ UNCHANGED <<pending, away, snap>>
    /\ UNCHANGED <<graph, strategy, data, node_hash, resolve_state, busy,
                   visited>>
    /\ UNCHANGED <<written, log, cleaned>>

\* ------------------------------------------------------------- InputNode
\* The guard of a node: an operation enters from Resting.  It also enters
\* a node that is as it was built, whose cell reads Updating with nothing
\* borrowed: the unit test resolves such a node with success.
GuardFreeAlways(n) == TRUE

GuardFreeFromRestingOnly(n) == resolve_state[n] = "Resting"

GuardFree(n) ==
    \/ resolve_state[n] = "Resting"
    \/ resolve_state[n] = NewResolveState /\ ~busy[n]

\* The cached hash is recomputed when a resolution is requested.
Rehash(n) == hash_value(n, strategy, data[n])

\* InputNode::resolve, entry.
NodeEnter ==
    /\ stack # <<>>
    /\ Top.k = "node" /\ Top.pc = "enter"
    /\ LET n == Top.id IN
       IF GuardFree(n)
       THEN /\ resolve_state' = [resolve_state EXCEPT ![n] = "Resolving"]
            /\ busy' = [busy EXCEPT ![n] = TRUE]
            /\ stack' = SetTop([Top EXCEPT !.pc = "body"])
            /\ UNCHANGED <<ret, snap>>
       ELSE /\ Return(Err("node", n))
            /\ snap' = AddErred(n)
            /\ UNCHANGED <<resolve_state, busy>>
    /\ UNCHANGED <<graph, strategy, data, node_hash,
                   last_state, ls_borrowed, visited, observed, pending,
                   failed_since>>
    /\ UNCHANGED <<written, log, cleaned, away>>

\* InputNode::resolve, exit: the hash is brought up to date, the guard goes
\* back to Resting and the caller gets a view of the node state.
NodeExit ==
    /\ stack # <<>>
    /\ Top.k = "node" /\ Top.pc = "body"
    /\ LET n == Top.id IN
       /\ node_hash' = [node_hash EXCEPT ![n] = Rehash(n)]
       /\ resolve_state' = [resolve_state EXCEPT ![n] = "Resting"]
       /\ busy' = [busy EXCEPT ![n] = FALSE]
       /\ visited' = visited \cup {n}
       /\ Return(Ok("node", n, Clean, data[n], Rehash(n)))
    /\ UNCHANGED <<graph, strategy, data, last_state, ls_borrowed, observed,
                   pending, failed_since, snap>>
    /\ UNCHANGED <<written, log, cleaned, away>>

\* InputNode::update, entry.
UpdateEnter ==
    /\ stack # <<>>
    /\ Top.k = "upd" /\ Top.pc = "enter"
    /\ LET n == Top.id IN
       IF GuardFree(n)
       THEN /\ resolve_state' = [resolve_state EXCEPT ![n] = "Updating"]
            /\ busy' = [busy EXCEPT ![n] = TRUE]
            /\ stack' = SetTop([Top EXCEPT !.pc = "body"])
            /\ UNCHANGED ret
       ELSE /\ Return(Err("upd", n))
            /\ UNCHANGED <<resolve_state, busy>>
    /\ UNCHANGED <<graph, strategy, data, node_hash,
                   last_state, ls_borrowed, visited, observed, pending,
                   failed_since, snap>>
    /\ UNCHANGED <<written, log, cleaned, away>>

\* InputNode::update, exit: update_mut has run, the guard goes back to
\* Resting.
UpdateExit ==
    /\ stack # <<>>
    /\ Top.k = "upd" /\ Top.pc = "body"
    /\ LET n == Top.id
           new == update_mut(n, data[n], Arg(Top))
       IN
       /\ data' = [data EXCEPT ![n] = new]
       /\ resolve_state' = [resolve_state EXCEPT ![n] = "Resting"]
       /\ busy' = [busy EXCEPT ![n] = FALSE]
       /\ pending' = [w \in Wrappers |-> pending[w] \/ n \in InputsOf(w)]
       /\ away' = [w \in Wrappers |->
                      \/ away[w]
                      \/ /\ Leaf(w, Cardinality(Wrappers)) = n
                         /\ observed[w].some
                         /\ observed[w].v # hash_value(n, strategy, new)]
       /\ written' = IF n = "n" THEN Top.arg ELSE written
       /\ log' = IF n = "c" THEN Append(log, Top.comment) ELSE log
       /\ Return(Ok("upd", n, Clean, new, node_hash[n]))
    /\ UNCHANGED <<graph, strategy, node_hash, last_state, ls_borrowed,
                   visited, observed, failed_since, snap, cleaned>>

\* ---------------------------------------------------------- derived node
\* The payload a derived node computes from the values of its inputs.
Combine(acc, v) == (acc + v) % (MaxVal + 1)

\* What the derived node reads in the view wrapper w gave it: the number
\* of new comments of a Comments node, the value of any other node.
Reading(w, value) ==
    IF Leaf(w, Cardinality(Wrappers)) = "c"
    THEN Len(new_comments(value)) ELSE value

DerEnter ==
    /\ stack # <<>>
    /\ Top.k = "der" /\ Top.pc = "enter"
    /\ LET n == Top.id IN
       IF GuardFree(n)
       THEN /\ resolve_state' = [resolve_state EXCEPT ![n] = "Resolving"]
            /\ busy' = [busy EXCEPT ![n] = TRUE]
            /\ stack' = SetTop([Top EXCEPT !.pc = "deps"])
            /\ UNCHANGED <<ret, snap>>
       ELSE /\ Return(Err("der", n))
            /\ snap' = AddErred(n)
            /\ UNCHANGED <<resolve_state, busy>>
    /\ UNCHANGED <<graph, strategy, data, node_hash,
                   last_state, ls_borrowed, visited, observed, pending,
                   failed_since>>
    /\ UNCHANGED <<written, log, cleaned, away>>

\* The derived node resolves its next wrapper.
DerCall ==
    /\ stack # <<>>
    /\ Top.k = "der" /\ Top.pc = "deps"
    /\ Top.i <= Len(graph.ins)
    /\ stack' = Append(SetTop([Top EXCEPT !.pc = "inner"]),
                       ResolveFrame(graph.ins[Top.i]))
    /\ UNCHANGED <<graph, strategy, data, node_hash, resolve_state, busy,
                   last_state, ls_borrowed, visited, ret, observed, pending,
                   failed_since, snap>>
    /\ UNCHANGED <<written, log, cleaned, away>>

\* The wrapper returned: an error aborts the node, a view is read.
DerDepReturn ==
    /\ stack # <<>>
    /\ Top.k = "der" /\ Top.pc = "ret"
    /\ LET n == Top.id IN
       IF ~ret.ok
       THEN /\ resolve_state' = [resolve_state EXCEPT ![n] = "Resting"]
            /\ busy' = [busy EXCEPT ![n] = FALSE]
            /\ Return(Err("der", n))
            /\ snap' = AddErred(n)
       ELSE /\ stack' = SetTop([Top EXCEPT !.pc = "deps", !.i = @ + 1,
                                           !.acc =
                                               Combine(@, Reading(ret.id,
                                                                  Payload(ret))),
                                           !.dirty = @ \/ ret.state = Dirty])
            /\ UNCHANGED <<resolve_state, busy, ret, snap>>
    /\ UNCHANGED <<graph, strategy, data, node_hash,
                   last_state, ls_borrowed, visited, observed, pending,
                   failed_since>>
    /\ UNCHANGED <<written, log, cleaned, away>>

\* Every wrapper is resolved: recompute if one of them was dirty.
DerExit ==
    /\ stack # <<>>
    /\ Top.k = "der" /\ Top.pc = "deps"
    /\ Top.i > Len(graph.ins)
    /\ LET n == Top.id
           value == IF Top.dirty THEN Top.acc ELSE data[n]
           hash == IF Top.dirty THEN HashValue(strategy, Top.acc)
                   ELSE node_hash[n]
       IN
       /\ data' = [data EXCEPT ![n] = value]
       /\ node_hash' = [node_hash EXCEPT ![n] = hash]
       /\ resolve_state' = [resolve_state EXCEPT ![n] = "Resting"]
       /\ busy' = [busy EXCEPT ![n] = FALSE]
       /\ visited' = visited \cup {n}
       /\ Return(Ok("der", n, Clean, value, hash))
    /\ UNCHANGED <<graph, strategy, last_state, ls_borrowed, observed,
                   pending, failed_since, snap>>
    /\ UNCHANGED <<written, log, cleaned, away>>

\* ------------------------------------------------------------ resolve_root
\* The pass is over: the cleanup hook runs on the nodes the pass visited
\* and the result of the resolution goes to the caller.
RootReturn ==
    /\ stack # <<>>
    /\ Top.k = "root" /\ Top.pc = "ret"
    /\ data' = [n \in Nodes |->
                   IF n \in visited THEN clean(n, data[n]) ELSE data[n]]
    /\ cleaned' = IF "c" \in visited THEN Len(log) ELSE cleaned
    /\ visited' = {}
    /\ Return([ret EXCEPT !.k = "root"])
    /\ snap' = NoSnapshot
    /\ UNCHANGED <<graph, strategy, node_hash, resolve_state, busy,
                   last_state, ls_borrowed, observed, pending, failed_since>>
    /\ UNCHANGED <<written, log, away>>

Next ==
    \/ \E w \in Wrappers : ResolveRoot(w)
    \/ \E n \in Inputs : \E v \in Updates(n) : Update(n, v)
    \/ \E n \in Inputs : \E v \in Updates(n) : NestedUpdate(n, v)
    \/ \E w \in Wrappers : NestedResolve(w)
    \/ DepEnter
    \/ DepReturn
    \/ NodeEnter
    \/ NodeExit
    \/ UpdateEnter
    \/ UpdateExit
    \/ DerEnter
    \/ DerCall
    \/ DerDepReturn
    \/ DerExit
    \/ RootReturn

Spec == Init /\ [][Next]_vars

\* The steps of a call in progress.
Step ==
    \/ DepEnter
    \/ DepReturn
    \/ NodeEnter
    \/ NodeExit
    \/ UpdateEnter
    \/ UpdateExit
    \/ DerEnter
    \/ DerCall
    \/ DerDepReturn
    \/ DerExit
    \/ RootReturn

\* The program with user code that makes no calls of its own: hash_value
\* and update_mut compute and return.
PassNext ==
    \/ \E w \in Wrappers : ResolveRoot(w)
    \/ \E n \in Inputs : \E v \in Updates(n) : Update(n, v)
    \/ Step

\* Execution is synchronous and single threaded: a call in progress runs
\* on until it returns.
FairSpec == Init /\ [][PassNext]_vars /\ WF_vars(Step)

\* ------------------------------------------------- the Comments value alone
\* Comments is a public type: update_mut and clean can be called on a value
\* in any order.  The value is the payload of "c"; nothing else moves.
CommentsInit == Init /\ graph = Feed

CommentsUpdate(update) ==
    /\ Len(log) < MaxLog
    /\ data' = [data EXCEPT !["c"] = CommentsUpdateMut(@, update)]
    /\ log' = Append(log, update)
    /\ UNCHANGED <<graph, strategy, node_hash, resolve_state, busy,
                   last_state, ls_borrowed, visited, stack, ret, observed,
                   pending, failed_since, snap, written, cleaned, away>>

CommentsCleanCall ==
    /\ data' = [data EXCEPT !["c"] = CommentsClean(@)]
    /\ cleaned' = Len(log)
    /\ UNCHANGED <<graph, strategy, node_hash, resolve_state, busy,
                   last_state, ls_borrowed, visited, stack, ret, observed,
                   pending, failed_since, snap, written, log, away>>

CommentsNext ==
    \/ \E update \in Comment : CommentsUpdate(update)
    \/ CommentsCleanCall

CommentsSpec == CommentsInit /\ [][CommentsNext]_vars

\* ================================================================ claims
\* A resolution of wrapper w (resolve, or the resolve_root that passes its
\* result on) has just returned successfully.
Resolved(w) == ret.k \in {"dep", "root"} /\ ret.id = w /\ ret.ok

\* The wrappers whose chain of wrappers ends at an Input Node.
AroundInput(w) == Leaf(w, Cardinality(Wrappers)) \in Inputs

\* The content hash of the payload a view shows, under the pass's strategy.
ContentHash(w, value) ==
    hash_value(Leaf(w, Cardinality(Wrappers)), strategy, value)

\* C1: the first successful resolution of a wrapper is Dirty, whatever the
\* payload, whether or not earlier attempts on it failed and whether or not
\* other wrappers around the node were resolved before.
FirstResolutionIsDirty ==
    \A w \in Wrappers :
        (Resolved(w) /\ ~ret.prev.some) => ret.state = Dirty

FirstResolutionWitness ==
    \E w \in Wrappers, u \in Wrappers :
        /\ Resolved(w) /\ ~ret.prev.some /\ ret.state = Dirty
        /\ ret.after_fail
        /\ u # w /\ dependency(u) = dependency(w) /\ observed[u].some

\* C2: two successful resolutions of a wrapper in a row with no update of
\* the wrapped node in between: the second one is Clean.
IdempotentCleanResolution ==
    \A w \in Wrappers :
        (Resolved(w) /\ ret.prev.some /\ ~ret.upd) => ret.state = Clean

IdempotentCleanWitness ==
    \E w \in Wrappers, u \in Wrappers :
        /\ Resolved(w) /\ ret.prev.some /\ ~ret.upd /\ ret.state = Clean
        /\ ret.k = "root"
        /\ u # w /\ observed[u].some

\* C3: an update that makes the content hash of the Input Node differ from
\* the hash the wrapper saw last makes the next resolution Dirty.
ChangeDetection ==
    \A w \in Wrappers :
        (/\ Resolved(w) /\ AroundInput(w)
         /\ ret.prev.some /\ ret.upd
         /\ ContentHash(w, Payload(ret)) # ret.prev.v) => ret.state = Dirty

ChangeDetectionWitness ==
    \E w \in Wrappers :
        /\ Resolved(w) /\ AroundInput(w)
        /\ ret.prev.some /\ ret.upd
        /\ ContentHash(w, Payload(ret)) # ret.prev.v
        /\ ret.state = Dirty

\* C4: an update that leaves the content hash of the Input Node equal to the
\* hash the wrapper saw last leaves the next resolution Clean.
UnchangedHashIsClean ==
    \A w \in Wrappers :
        (/\ Resolved(w) /\ AroundInput(w)
         /\ ret.prev.some /\ ret.upd
         /\ ContentHash(w, Payload(ret)) = ret.prev.v) => ret.state = Clean

UnchangedHashWitness ==
    \E w \in Wrappers :
        /\ Resolved(w) /\ AroundInput(w)
        /\ ret.prev.some /\ ret.upd
        /\ ContentHash(w, Payload(ret)) = ret.prev.v
        /\ ret.state = Clean

\* The step in which the resolve of wrapper w gets its inner result.
DepReturnStep(w) ==
    stack # <<>> /\ Top.k = "dep" /\ Top.id = w /\ Top.pc = "ret"

\* C5: wrappers that share a node keep separate histories.  The memory of a
\* wrapper changes only in a resolution of that wrapper, and the result of
\* a resolution is Clean exactly when the content hash now equals the one
\* of this wrapper's own previous successful resolution.
PerEdgeIndependence ==
    [][\A w \in Wrappers :
          /\ last_state'[w] # last_state[w] => DepReturnStep(w)
          /\ (DepReturnStep(w) /\ ret'.ok) =>
                (ret'.state = Clean <=>
                    (observed[w].some
                     /\ observed[w].v = ContentHash(w, Payload(ret'))))]_vars

PerEdgeIndependenceWitness ==
    \E w \in Wrappers, u \in Wrappers :
        /\ u # w /\ dependency(u) = dependency(w)
        /\ Resolved(w) /\ ret.state = Dirty /\ ret.prev.some
        /\ last_state[u].some /\ last_state[u] # last_state[w]
        /\ pending[u]

\* A resolve of wrapper w is in progress below the top of the call chain.
InProgress(w) ==
    \E j \in 1..(Len(stack) - 1) : stack[j].k = "dep" /\ stack[j].id = w

\* C6: resolve entered on a wrapper that is already being resolved fails at
\* once, with nothing resolved and no memory written; the cell of a wrapper
\* stays borrowed for as long as its nested resolution runs.
ReentrancyRejected ==
    /\ [](\A j \in 1..Len(stack) :
            (stack[j].k = "dep" /\ stack[j].pc \in {"inner", "ret"})
                => ls_borrowed[stack[j].id])
    /\ [][(stack # <<>> /\ Top.k = "dep" /\ Top.pc = "enter"
           /\ InProgress(Top.id))
          => (/\ ret'.k = "dep" /\ ret'.id = Top.id /\ ~ret'.ok
              /\ stack' = Resume(Below)
              /\ UNCHANGED <<last_state, ls_borrowed, data, node_hash,
                             resolve_state, busy, visited>>)]_vars

ReentrancyWitness ==
    /\ ret.k = "dep" /\ ~ret.ok
    /\ InProgress(ret.id)
    /\ stack # <<>> /\ Top.k = "dep" /\ Top.pc = "ret" /\ Top.id # ret.id

\* The resolution of a pass has returned an error to resolve_root.
PassFailed == stack # <<>> /\ Top.k = "root" /\ Top.pc = "ret" /\ ~ret.ok

\* C7 as written: after a failed pass the memory of the wrappers on the
\* failing path, the payload and the cached hash of every node are what they
\* were when the pass began, and no wrapper has overwritten its memory.
FailedPassLeavesAllUntouched ==
    PassFailed =>
        /\ \A w \in snap.erred \cap Wrappers : last_state[w] = snap.last[w]
        /\ data = snap.data
        /\ node_hash = snap.hash
        /\ last_state = snap.last

\* C7, amended: a resolve that returns an error has not written the memory
\* of its wrapper, so after a failed pass the wrappers and the nodes on the
\* failing path are as they were when the pass began.  A wrapper or a node
\* on a branch that was resolved earlier in the pass keeps what it stored.
FailedPassKeepsFailingPath ==
    /\ (ret.k = "dep" /\ ~ret.ok) => last_state[ret.id] = ret.saved
    /\ PassFailed =>
          \A v \in snap.erred :
              IF v \in Wrappers
              THEN last_state[v] = snap.last[v]
              ELSE data[v] = snap.data[v] /\ node_hash[v] = snap.hash[v]

\* A pass has failed after a sibling branch had stored its hash.
FailedPassWitness ==
    /\ PassFailed
    /\ \E w \in Wrappers : w \notin snap.erred /\ last_state[w] # snap.last[w]
    /\ \E w \in Wrappers : w \in snap.erred /\ last_state[w] = snap.last[w]

\* The frames that hold the cell of wrapper w, and the guard of node n.
HoldersOfCell(w) ==
    {j \in 1..Len(stack) :
        stack[j].k = "dep" /\ stack[j].id = w /\ stack[j].pc \in {"inner", "ret"}}
HoldersOfGuard(n) ==
    {j \in 1..Len(stack) :
        stack[j].k \in {"node", "upd", "der"} /\ stack[j].id = n
        /\ stack[j].pc # "enter"}

\* C8: a failed resolve or update leaves no guard held: a cell or a node is
\* held exactly while a call that acquired it is still running, so nothing
\* is held once the calls have returned; a resolve_root on a graph without
\* a cycle then succeeds, and a resolution made after a failure classifies
\* against the memory from before the failure.
FailureReleasesGuards ==
    /\ \A w \in Wrappers : ls_borrowed[w] <=> HoldersOfCell(w) # {}
    /\ \A n \in Nodes : busy[n] <=> HoldersOfGuard(n) # {}
    /\ (ret.k = "root" /\ graph # Cycle) => ret.ok
    /\ \A w \in Wrappers :
          (Resolved(w) /\ ret.after_fail) =>
              (ret.state = Clean <=>
                  (ret.prev.some /\ ret.prev.v = ContentHash(w, Payload(ret))))

FailureReleasesGuardsWitness ==
    \E w \in Wrappers :
        /\ Resolved(w) /\ ret.k = "root" /\ stack = <<>>
        /\ ret.after_fail /\ ret.prev.some /\ ret.state = Clean
        /\ ~ls_borrowed[w] /\ \A n \in Nodes : ~busy[n]

\* An operation of the given kind ("node" for resolve, "upd" for update)
\* is in flight on node n.
Active(n, kind) == \E j \in HoldersOfGuard(n) : stack[j].k = kind

\* Node n is as it was built: its cell reads the constructed value and no
\* operation is in flight on it.
AsBuilt(n) == resolve_state[n] = NewResolveState /\ HoldersOfGuard(n) = {}

\* The next step is the entry of an operation of this kind on node n.
EntryAttempt(n, kind) ==
    stack # <<>> /\ Top.k = kind /\ Top.id = n /\ Top.pc = "enter"

\* The states the guard of node n may be in; built_too admits the cell of
\* a node at rest to read the constructed value.
GuardState(n, built_too) ==
    /\ Cardinality(HoldersOfGuard(n)) <= 1
    /\ resolve_state[n] = "Resolving" <=> Active(n, "node")
    /\ Active(n, "upd") => resolve_state[n] = "Updating"
    /\ HoldersOfGuard(n) = {} =>
           \/ resolve_state[n] = "Resting"
           \/ built_too /\ resolve_state[n] = NewResolveState

\* The steps of the guard of node n: an entry succeeds from Resting (and
\* from the state the node was built in, if built_too) and moves the cell
\* to Resolving or Updating, it fails from any other state, and the end of
\* an operation moves the cell to Resting.
GuardStep(n, built_too) ==
    /\ \A kind \in {"node", "upd"} :
          EntryAttempt(n, kind) =>
              IF resolve_state[n] = "Resting" \/ (built_too /\ AsBuilt(n))
              THEN /\ HoldersOfGuard(n)' # {}
                   /\ resolve_state'[n] =
                          IF kind = "node" THEN "Resolving" ELSE "Updating"
              ELSE /\ ret'.k = kind /\ ret'.id = n /\ ~ret'.ok
                   /\ resolve_state'[n] = resolve_state[n]
    /\ (HoldersOfGuard(n) # {} /\ HoldersOfGuard(n)' = {})
          => resolve_state'[n] = "Resting"
    /\ ~AsBuilt(n) => ~AsBuilt(n)'

\* Calls on a node that do not overlap succeed: an entry fails only inside
\* an operation in flight on the node, an update called between passes
\* succeeds and so does a resolve_root on a graph without a cycle.
CallsInTurnSucceed ==
    /\ (ret.k \in {"node", "upd"} /\ ~ret.ok)
          => (busy[ret.id] /\ ret.nested)
    /\ (ret.k = "upd" /\ ~ret.nested) => ret.ok
    /\ (ret.k = "root" /\ graph # Cycle) => ret.ok

\* C9 as written: the guard of an Input Node follows the stated machine.
\* Entry of resolve or update succeeds only from Resting and moves the
\* guard to Resolving or Updating, the end of the operation moves it back
\* to Resting, at most one of Resolving and Updating is active on a node,
\* and calls that do not overlap all succeed.
GuardFollowsStatedMachine ==
    /\ [](CallsInTurnSucceed /\ \A n \in Inputs : GuardState(n, FALSE))
    /\ [][\A n \in Inputs : GuardStep(n, FALSE)]_vars

\* C9, amended: the guard of an Input Node follows the stated machine from
\* Resting and from the state the node is built in, where the cell reads
\* Updating with no operation in flight.  Entry of resolve or update
\* succeeds from these two states only and moves the guard to Resolving or
\* Updating, the end of the operation moves it to Resting and the built
\* state never comes back; at most one of Resolving and Updating is active
\* on a node, and calls that do not overlap all succeed.
OneOperationAtATime ==
    /\ [](CallsInTurnSucceed /\ \A n \in Inputs : GuardState(n, TRUE))
    /\ [][\A n \in Inputs : GuardStep(n, TRUE)]_vars

\* resolve_root, update, resolve_root in turn on the diamond: all have
\* succeeded, the last one saw the update, and the guard is at Resting.
OneOperationWitness ==
    /\ graph = Diamond /\ stack = <<>>
    /\ ret.k = "root" /\ ret.ok /\ ret.state = Dirty
    /\ ret.prev.some /\ ret.upd
    /\ resolve_state["n"] = "Resting" /\ ~busy["n"]

\* No resolve or update has been called yet.
Pristine == stack = <<>> /\ ret.k = "none"

\* C10 as written: a new Input Node rests at Resting.
NewNodeIsResting ==
    Pristine =>
        /\ \A n \in Inputs :
              resolve_state[n] = "Resting" /\ node_hash[n] = NotHashed
        /\ \A w \in Wrappers : last_state[w] = None

\* C10, amended: a new Input Node has resolve_state Updating and node_hash
\* NotHashed, and a new wrapper around it has last_state None.
NewNodeIsUpdating ==
    Pristine =>
        /\ \A n \in Inputs :
              /\ resolve_state[n] = "Updating"
              /\ node_hash[n] = NotHashed
              /\ ~busy[n]
        /\ \A w \in Wrappers : last_state[w] = None /\ ~ls_borrowed[w]

NewNodeWitness ==
    Pristine /\ data["n"] = MaxVal /\ graph = Diamond

\* C11: update entered on an Input Node while a resolve of that node is in
\* flight, or resolve entered while an update is in flight, returns the
\* guard-violation error at once and leaves the payload, the cached hash
\* and the guard of the node as they were.
GuardViolationLeavesNodeUntouched ==
    [][(/\ stack # <<>>
        /\ Top.k \in {"upd", "node"} /\ Top.pc = "enter"
        /\ HoldersOfGuard(Top.id) # {})
       => (/\ ret'.k = Top.k /\ ret'.id = Top.id /\ ~ret'.ok
           /\ stack' = Resume(Below)
           /\ UNCHANGED <<data, node_hash, resolve_state, busy>>)]_vars

\* A resolve of the node has failed inside the node's own update_mut.
GuardViolationWitness ==
    /\ ret.k = "node" /\ ~ret.ok
    /\ \E j \in 1..Len(stack) :
          stack[j].k = "upd" /\ stack[j].id = ret.id /\ stack[j].pc = "body"
    /\ busy[ret.id] /\ node_hash[ret.id] # NotHashed

\* The graph has a cycle: a wrapper reaches itself through the vertices it
\* resolves.
Cyclic ==
    \E w \in Wrappers :
        w \in ReachSet(Targets(w), Cardinality(Nodes \cup Wrappers))

\* The longest call chain of one nesting level: resolve_root, every vertex
\* once, and the call that is being refused.
MaxChain == Cardinality(Nodes \cup Wrappers) + 2

\* C12: every pass terminates.  A wrapper is on the call chain at most
\* once, because try_borrow_mut refuses the second entry, so the chain of
\* nested resolve calls is bounded by the number of vertices; every call
\* that was started returns; resolve_root returns the error on a graph
\* with a cycle and a result on a graph without one.
EveryPassTerminates ==
    /\ [](/\ \A w \in Wrappers : Cardinality(HoldersOfCell(w)) <= 1
          /\ \A j \in 1..(Len(stack) - 1) : stack[j].pc # "enter"
          /\ Len(stack) <= MaxChain
          /\ ret.k = "root" => (ret.ok <=> ~Cyclic))
    /\ (stack # <<>>) ~> (stack = <<>>)

\* resolve_root has returned the error on the graph with a cycle.
EveryPassTerminatesWitness ==
    /\ stack = <<>> /\ ret.k = "root" /\ ~ret.ok
    /\ Cyclic
    /\ \A w \in Wrappers : ~ls_borrowed[w]

\* C13: every successful resolution of a wrapper around an Input Node,
\* Clean or Dirty, returns a view of the node's current payload, and for a
\* Foo node that payload is the value the node was built with or, after
\* updates, the value of the last successful update.
ViewShowsCurrentPayload ==
    \A w \in Wrappers :
        (Resolved(w) /\ AroundInput(w)) =>
            /\ Payload(ret) = data[Leaf(w, Cardinality(Wrappers))]
            /\ Leaf(w, Cardinality(Wrappers)) = "n" => ret.value = written

\* A Clean resolution that follows an update: the view shows the value the
\* update wrote, which differs from the one the wrapper showed before.
ViewShowsCurrentPayloadWitness ==
    \E w \in Wrappers :
        /\ Resolved(w) /\ Leaf(w, Cardinality(Wrappers)) = "n"
        /\ ret.state = Clean /\ ret.upd /\ ret.away
        /\ ret.value = written /\ ret.value = MaxVal

\* resolve_root called from outside is running: the pass.
PassRunning == stack # <<>> /\ stack[1].k = "root"

\* C14: the cleanup hook runs only when the outermost resolve_root of a
\* pass completes, never in a resolve made while traversing.  The new
\* comments of a Comments node therefore stay as they were when the pass
\* began for every wrapper the pass resolves, and they are gone when
\* resolve_root has returned, before the next update from outside.
CleanupOnlyAtEndOfPass ==
    /\ [](/\ (PassRunning /\ ret.ok /\ ret.k \in {"node", "dep"}
              /\ Leaf(ret.id, Cardinality(Wrappers)) = "c")
                => ret.view.new_comment_ids = snap.data["c"].new_comment_ids
          /\ (stack = <<>> /\ ret.k = "root" /\ ret.ok
              /\ "c" \in InputsOf(ret.id))
                => data["c"].new_comment_ids = <<>>)
    /\ [][(\/ cleaned' # cleaned
           \/ Len(data'["c"].new_comment_ids) < Len(data["c"].new_comment_ids))
          => (Len(stack) = 1 /\ Top.k = "root" /\ Top.pc = "ret"
              /\ stack' = <<>>)]_vars

\* The derived node is reading the second view of a pass, and it shows the
\* comments added since the cleanup of an earlier pass, as the first did.
CleanupOnlyAtEndOfPassWitness ==
    /\ PassRunning /\ Top.k = "der" /\ Top.pc = "ret" /\ Top.i = 2
    /\ ret.k = "dep" /\ ret.ok /\ ret.id = "w3"
    /\ Len(ret.view.new_comment_ids) = 1
    /\ Top.acc = 1
    /\ cleaned = 1

\* The comments inserted since clean ran last, in the order of the calls.
Fresh == SubSeq(log, cleaned + 1, Len(log))

\* The comment inserted last under id k.
Latest(k) ==
    log[CHOOSE i \in 1..Len(log) :
            log[i].id = k /\ \A j \in (i + 1)..Len(log) : log[j].id # k]

\* No id was inserted twice.
DistinctIds(q) ==
    \A i \in 1..Len(q), j \in 1..Len(q) : q[i].id = q[j].id => i = j

\* C15 as written: new_comments yields exactly the items inserted since the
\* last cleanup, and the stored collection contains every item ever
\* inserted.
NewCommentsAreTheInsertedItems ==
    /\ new_comments(data["c"]) = Fresh
    /\ \A i \in 1..Len(log) :
          \E k \in DOMAIN data["c"].comments : data["c"].comments[k] = log[i]

\* C15, amended: new_comments yields, for every insertion since the last
\* cleanup and in the order of the insertions, the comment now stored under
\* the inserted id, which is the comment inserted last under that id; these
\* are exactly the inserted items when no id was inserted twice.  After
\* clean the view is empty.  The map holds, under every id ever inserted,
\* the comment inserted last under it.
NewCommentsFollowInsertions ==
    /\ Len(new_comments(data["c"])) = Len(Fresh)
    /\ \A i \in 1..Len(Fresh) :
          new_comments(data["c"])[i] = Latest(Fresh[i].id)
    /\ DistinctIds(Fresh) => new_comments(data["c"]) = Fresh
    /\ cleaned = Len(log) => new_comments(data["c"]) = <<>>
    /\ DOMAIN data["c"].comments = {log[i].id : i \in 1..Len(log)}
    /\ \A k \in DOMAIN data["c"].comments : data["c"].comments[k] = Latest(k)
    /\ DistinctIds(log) =>
          \A i \in 1..Len(log) : data["c"].comments[log[i].id] = log[i]

\* After a cleanup an id was inserted twice with different content: the
\* view yields the later comment twice, and the map no longer holds the
\* earlier one.
NewCommentsFollowInsertionsWitness ==
    /\ cleaned = 1 /\ Len(log) = 3
    /\ log[2].id = log[3].id /\ log[2] # log[3] /\ log[1].id # log[2].id
    /\ new_comments(data["c"]) = <<log[3], log[3]>>
    /\ data["c"].comments[log[1].id] = log[1]

\* C16: the cleanup hook leaves the durable payload, the value the content
\* hash is computed from, the cached hashes and the memory of every wrapper
\* as they are: for Comments, clean keeps comments and generation.  A
\* resolution made after a cleanup with no update since is therefore Clean.
CleanupKeepsDurableState ==
    /\ [][(stack # <<>> /\ Top.k = "root")
          => (/\ data'["c"].comments = data["c"].comments
              /\ data'["c"].generation = data["c"].generation
              /\ hash_value("c", strategy, data'["c"])
                     = hash_value("c", strategy, data["c"])
              /\ \A n \in Nodes \ {"c"} : data'[n] = data[n]
              /\ node_hash' = node_hash
              /\ last_state' = last_state)]_vars
    /\ [](\A w \in Wrappers :
            (/\ Resolved(w) /\ Leaf(w, Cardinality(Wrappers)) = "c"
             /\ ret.prev.some /\ cleaned = Len(log))
                => ret.state = Clean)

\* After a pass that cleaned the new comments away, the next pass finds
\* the wrapper around the Comments node Clean.
CleanupKeepsDurableStateWitness ==
    \E w \in Wrappers :
        /\ Resolved(w) /\ Leaf(w, Cardinality(Wrappers)) = "c"
        /\ PassRunning /\ ret.state = Clean
        /\ cleaned = Len(log) /\ cleaned = MaxGen
        /\ ret.view.new_comment_ids = <<>>
        /\ DOMAIN ret.view.comments # {}

\* C17: in every successful resolution of wrapper w the result is Clean
\* exactly when the stored hash is present and equal to the current hash,
\* and then the stored hash is left as it is; otherwise the result is Dirty
\* and the stored hash becomes the current one.  After a successful
\* resolution the stored hash is Some(content hash of the wrapped value),
\* and a stored hash never goes back to None.
StoredHashFollowsResolution ==
    /\ [][\A w \in Wrappers :
            (DepReturnStep(w) /\ ret'.ok) =>
               /\ ~is_dirty(ret') <=>
                      (last_state[w].some /\ last_state[w].v = ret'.hash)
               /\ ~is_dirty(ret') => last_state'[w] = last_state[w]
               /\ is_dirty(ret') => last_state'[w] = Some(ret'.hash)]_vars
    /\ [][\A w \in Wrappers : last_state[w].some => last_state'[w].some]_vars
    /\ [](\A w \in Wrappers :
            Resolved(w) =>
                last_state[w] = Some(ContentHash(w, Payload(ret))))

\* A Dirty resolution has replaced a stored hash by a different one.
StoredHashWitness ==
    \E w \in Wrappers :
        /\ Resolved(w) /\ is_dirty(ret)
        /\ ret.saved.some /\ ret.saved # last_state[w]
        /\ last_state[w] = Some(ret.hash)

\* A resolution of wrapper w around the Comments node has returned, and
\* the node was updated since w was resolved last.
ResolvedAfterUpdate(w) ==
    Resolved(w) /\ Leaf(w, Cardinality(Wrappers)) = "c" /\ ret.upd

\* C18 as written: generation counts the updates, and after any update the
\* next resolution of every wrapper around the node is Dirty.
UpdateAlwaysDirties ==
    /\ data["c"].generation = Len(log)
    /\ \A w \in Wrappers : ResolvedAfterUpdate(w) => ret.state = Dirty

\* C18, amended: every successful update adds one to generation, nothing
\* else changes it and clean does not reset it, so the hashed value after
\* an update differs from every earlier one, also when the comment
\* inserted is identical to the one stored.  The next resolution of a
\* wrapper around the node is Dirty unless the hasher gives the new
\* generation the fingerprint the wrapper stored for an earlier one; it is
\* always Dirty under a hasher that keeps the generations apart.
UpdateAdvancesGeneration ==
    /\ [](data["c"].generation = Len(log))
    /\ [][/\ data'["c"].generation >= data["c"].generation
          /\ data'["c"].generation # data["c"].generation =>
                /\ stack # <<>> /\ Top.k = "upd" /\ Top.id = "c"
                /\ ret'.ok
                /\ data'["c"].generation = data["c"].generation + 1]_vars
    /\ [](\A w \in Wrappers :
            ResolvedAfterUpdate(w) =>
               /\ ret.prev.some => ret.prev.v # NotHashed
               /\ ret.state = Clean =>
                     /\ ret.prev.some
                     /\ \E g \in 0..(ret.view.generation - 1) :
                           /\ ret.prev.v = Hashed(HasherWriteUsize(strategy, g))
                           /\ HasherWriteUsize(strategy, g) =
                                 HasherWriteUsize(strategy, ret.view.generation)
               /\ strategy = "wide" => ret.state = Dirty)

\* A comment identical to the stored one was inserted after a cleanup, and
\* the next resolution of the wrapper is Dirty.
UpdateAdvancesGenerationWitness ==
    \E w \in Wrappers :
        /\ ResolvedAfterUpdate(w) /\ ret.state = Dirty /\ ret.prev.some
        /\ Len(log) = 2 /\ log[1] = log[2] /\ cleaned = 1
        /\ ret.view.generation = 2
        /\ DOMAIN ret.view.comments = {log[1].id}

\* C19: the result of a resolution depends only on the content hash at
\* this resolution and at the previous one of the same wrapper, not on the
\* writes in between.  A node updated away from a value and back to it
\* with no resolution of w in between leaves w Clean; a wrapper whose
\* previous resolution fell in between, and saw another hash, is Dirty.
OnlyTheTwoResolutionPointsCount ==
    \A w \in Wrappers :
        (Resolved(w) /\ AroundInput(w) /\ ret.prev.some) =>
            /\ (ret.away /\ ret.prev.v = ContentHash(w, Payload(ret)))
                  => ret.state = Clean
            /\ ret.prev.v # ContentHash(w, Payload(ret)) => ret.state = Dirty
            /\ ret.state = Clean <=> ret.prev.v = ContentHash(w, Payload(ret))

\* The node went away and came back: w is Clean, and the wrapper u around
\* the same node, resolved while the node was away, still remembers the
\* other hash.
AwayAndBackWitness ==
    \E w \in Wrappers, u \in Wrappers :
        /\ Resolved(w) /\ dependency(w) = "n" /\ ret.state = Clean
        /\ ret.away /\ ret.value = written
        /\ u # w /\ dependency(u) = "n"
        /\ observed[u].some /\ observed[u].v # ret.hash /\ pending[u]

\* How often id k occurs in the sequence of ids q.
Occurrences(q, k) == Cardinality({i \in 1..Len(q) : q[i] = k})

\* C20: in every state of a Comments value reached from the default value
\* by calls of update_mut and clean, every id in new_comment_ids is a key
\* of comments, so new_comments never looks up a missing comment; and
\* new_comment_ids holds one entry for every update since the last clean,
\* in the order of the calls, so an id inserted twice since then is there
\* twice.
NewIdsAreKeysInCallOrder ==
    /\ \A i \in 1..Len(data["c"].new_comment_ids) :
          data["c"].new_comment_ids[i] \in DOMAIN data["c"].comments
    /\ data["c"].new_comment_ids = [i \in 1..Len(Fresh) |-> Fresh[i].id]
    /\ \A k \in Ids :
          Occurrences(data["c"].new_comment_ids, k)
              = Cardinality({i \in 1..Len(Fresh) : Fresh[i].id = k})

\* One id was inserted, clean ran, and another id was inserted twice.
NewIdsWitness ==
    /\ cleaned = 1 /\ Len(log) = 3
    /\ log[1].id # log[2].id /\ log[2].id = log[3].id
    /\ data["c"].new_comment_ids = <<log[2].id, log[2].id>>
    /\ Len(new_comments(data["c"])) = 2
    /\ log[1].id \in DOMAIN data["c"].comments

====
